---- MODULE Spec2Model ----
(***************************************************************************)
(* Tourism management system: the Flask handlers of app.py over the        *)
(* SQLite schema of init_db.py, as a state machine.  One browser session   *)
(* (the signed cookie), the tables of the local database file, and one     *)
(* booking request that may be in flight while other requests are served   *)
(* (the development server is threaded; every request has its own          *)
(* connection).                                                            *)
(***************************************************************************)
EXTENDS Integers, Sequences, FiniteSets, TLC

VARIABLES
  started,         \* the process has imported app.py (init_db has run)
  users,           \* table users: set of rows
  admins,          \* table admins
  packages,        \* table packages
  bookings,        \* table bookings
  payments,        \* table payments
  feedback,        \* table feedback
  admin_activity,  \* table admin_activity: rows in insertion order
  cloud_activity,  \* table cloud_activity: rows in insertion order
  seq,             \* sqlite_sequence: last AUTOINCREMENT id of each table
  audit_up,        \* an INSERT into an activity table succeeds
  surface,         \* the part of the URL surface a run exercises
  session,         \* the browser's Flask session: a function key -> value
  req,             \* the book_package request in flight
  resp             \* what the last finished request returned

db == <<users, admins, packages, bookings, payments, feedback,
        admin_activity, cloud_activity, seq>>
vars == <<started, users, admins, packages, bookings, payments, feedback,
          admin_activity, cloud_activity, seq, audit_up, surface, session,
          req, resp>>

---------------------------------------------------------------------------
(* Bounds of the model *)
MaxUsers == 2        \* user rows ever registered
MaxAdmins == 2       \* admin rows ever registered (the seed included)
MaxPackageId == 3    \* package ids ever allocated
MaxBookings == 2     \* booking transactions committed, booking handlers alone
MaxCatalogBookings == 1  \* the same, while admins edit the catalog
MaxLog == 3          \* rows of an activity table
MaxFeedback == 1     \* feedback rows ever inserted

(* Form values.  "" is a field left empty. *)
Fullnames == {"Alice"}
Emails == {"a@x.com", "b@x.com"}
Passwords == {"pw1", "pw2"}
Salts == {"s1"}
Phones == {"555"}
Places == {"Pune"}
TravelDates == {"2027-01-01"}
PersonsInputs == {"2", "0", "x"}
NULL == "NULL"
None == 0

---------------------------------------------------------------------------
(* werkzeug.security: a salted digest, verified by recomputing it *)
Digest(salt, password) == <<salt, password>>

(* the digest computed without the salt that is stored beside it *)
generate_password_hash_unsalted(salt, password) ==
  [salt |-> salt, digest |-> Digest("", password)]

generate_password_hash(salt, password) ==
  [salt |-> salt, digest |-> Digest(salt, password)]

check_password_hash(pwhash, password) ==
  pwhash.digest = Digest(pwhash.salt, password)

(* Python truthiness of a form value *)
(* a presence test that accepts the empty string *)
Truthy_any(v) == TRUE

Truthy(v) == v # ""

(* int(persons): the integer a form string denotes; ValueError otherwise *)
IsIntLiteral(s) == s \in {"2", "0"}

int(s) == CASE s = "2" -> 2
            [] s = "0" -> 0

(* a numeric form string stored into a REAL / INTEGER column *)
NumericAffinity(s) == CASE s = "750" -> 750
                        [] s = "3" -> 3

(* a value of a REAL column: SQLite keeps a text that is no number as text *)
REAL(n) == [type |-> "real", real |-> n, text |-> ""]
TEXT(s) == [type |-> "text", real |-> 0, text |-> s]

IsNumeric(s) == s \in {"750", "3"}

RealAffinity(s) == IF IsNumeric(s) THEN REAL(NumericAffinity(s)) ELSE TEXT(s)

(* Python's str * int *)
RECURSIVE Repeat(_, _)
Repeat(s, n) == IF n <= 0 THEN "" ELSE s \o Repeat(s, n - 1)

(* package["price"] * persons *)
mul(price, persons) ==
  IF price.type = "real" THEN REAL(price.real * persons)
  ELSE TEXT(Repeat(price.text, persons))

(* f"{amount:.2f}": ValueError for a str *)
FormatRaises(amount) == amount.type = "text"

(* a column without the UNIQUE constraint *)
UniqueViolation_off(rows, id, email) == FALSE

(* email TEXT UNIQUE: the row set already holds the value in another row *)
UniqueViolation(rows, id, email) ==
  \E r \in rows : r.id # id /\ r.email = email

(* the Flask session *)
EmptySession == [k \in {} |-> None]
(* login without session.clear() *)
UserSession_kept(u) ==
  ("user_id" :> u.id) @@ ("user_name" :> u.fullname) @@ session

UserSession(u) == ("user_id" :> u.id) @@ ("user_name" :> u.fullname)
AdminSession(a) == ("admin_id" :> a.id) @@ ("admin_name" :> a.fullname)
HasUser == "user_id" \in DOMAIN session
HasAdmin == "admin_id" \in DOMAIN session

Idle == [pc |-> "idle"]

Response(handler, outcome) == [handler |-> handler, outcome |-> outcome]

---------------------------------------------------------------------------
(* log_action: on the local backend every role is written to admin_activity *)
DATABASE_URL == FALSE

LogTable(role) ==
  IF DATABASE_URL /\ role # "admin" THEN "cloud_activity" ELSE "admin_activity"

(* log_action without its except clause: a failed insert ends the request *)
log_action_raises(user_id, role, action) ==
  /\ audit_up
  /\ admin_activity' = Append(admin_activity,
         [admin_id |-> user_id, role |-> role, action |-> action])
  /\ UNCHANGED cloud_activity

log_action(user_id, role, action) ==
  IF ~audit_up
  THEN UNCHANGED <<admin_activity, cloud_activity>>   \* except: print, go on
  ELSE IF LogTable(role) = "admin_activity"
  THEN /\ admin_activity' = Append(admin_activity,
              [admin_id |-> user_id, role |-> role, action |-> action])
       /\ UNCHANGED cloud_activity
  ELSE /\ cloud_activity' = Append(cloud_activity,
              [user_id |-> user_id, role |-> role, action |-> action])
       /\ UNCHANGED admin_activity

LogRoom ==
  audit_up => Len(admin_activity) < MaxLog /\ Len(cloud_activity) < MaxLog

NoLog == UNCHANGED <<admin_activity, cloud_activity>>

(* a request is served only by a running process *)
Serving == started /\ UNCHANGED <<started, audit_up, surface>>

---------------------------------------------------------------------------
(* init_db.py *)
SeedAdmin(id, salt) ==
  [id |-> id, fullname |-> "Admin", email |-> "admin@demo.com",
   password_hash |-> generate_password_hash(salt, "admin123"),
   phone |-> NULL]

SeedPackages(last) ==
  { [id |-> last + 1, title |-> "Beach Escape", location |-> "Goa",
     description |-> "3N/4D seaside fun", price |-> REAL(12999), days |-> 4,
     image_url |-> "https://picsum.photos/seed/goa/800/500",
     status |-> "Available"],
    [id |-> last + 2, title |-> "Mountain Retreat", location |-> "Manali",
     description |-> "4N/5D snow experience", price |-> REAL(17999), days |-> 5,
     image_url |-> "https://picsum.photos/seed/manali/800/500",
     status |-> "Available"] }

(* seeding without the row-count check *)
NeedsSeed_always(rows) == TRUE

NeedsSeed(rows) == Cardinality(rows) = 0

init_db ==
  /\ admins = {} => seq.admins < MaxAdmins
  /\ packages = {} => seq.packages + 2 <= MaxPackageId
  /\ \E salt \in Salts :
       admins' = IF NeedsSeed(admins)
                 THEN admins \cup {SeedAdmin(seq.admins + 1, salt)}
                 ELSE admins
  /\ packages' = IF NeedsSeed(packages)
                 THEN packages \cup SeedPackages(seq.packages)
                 ELSE packages
  /\ seq' = [seq EXCEPT
              !.admins = IF NeedsSeed(admins) THEN @ + 1 ELSE @,
              !.packages = IF NeedsSeed(packages) THEN @ + 2 ELSE @]
  /\ started' = TRUE
  /\ req' = Idle
  /\ resp' = Response("init_db", "initialized")
  /\ UNCHANGED <<users, bookings, payments, feedback, admin_activity, cloud_activity,
                 audit_up, surface, session>>

---------------------------------------------------------------------------
(* Access guards: the decorators and the in-handler session checks *)
(* a guard that lets the request through *)
login_required_open(handler) ==
  /\ ~("user_id" \in DOMAIN session)
  /\ resp' = Response(handler, "200")
  /\ UNCHANGED <<db, session, req>>

login_required(handler) ==
  /\ ~HasUser
  /\ resp' = Response(handler, "redirect:login")
  /\ UNCHANGED <<db, session, req>>

admin_required(handler) ==
  /\ ~HasAdmin
  /\ resp' = Response(handler, "redirect:admin_login")
  /\ UNCHANGED <<db, session, req>>

---------------------------------------------------------------------------
(* User auth *)
register_invalid(fullname, email, password) ==
  /\ ~(Truthy(fullname) /\ Truthy(email) /\ Truthy(password))
  /\ resp' = Response("register", "All fields are required.")
  /\ UNCHANGED <<db, session, req>>

register_duplicate(fullname, email, password) ==
  /\ Truthy(fullname) /\ Truthy(email) /\ Truthy(password)
  /\ UniqueViolation(users, None, email)
  /\ resp' = Response("register", "Email already registered.")
  /\ UNCHANGED <<db, session, req>>

register_ok(fullname, email, password) ==
  /\ Truthy(fullname) /\ Truthy(email) /\ Truthy(password)
  /\ ~UniqueViolation(users, None, email)
  /\ seq.users < MaxUsers /\ LogRoom
  /\ \E salt \in Salts :
       users' = users \cup
         {[id |-> seq.users + 1, fullname |-> fullname, email |-> email,
           password_hash |-> generate_password_hash(salt, password),
           phone |-> NULL, location |-> NULL]}
  /\ seq' = [seq EXCEPT !.users = @ + 1]
  /\ log_action(None, "guest", <<"User registered: ", email>>)
  /\ resp' = Response("register", "Registration successful! Please log in.")
  /\ UNCHANGED <<admins, packages, bookings, payments, feedback, session, req>>

register ==
  /\ Serving
  /\ \E fullname \in Fullnames \cup {""}, email \in Emails \cup {""},
     password \in {"pw1", ""} :
    \/ register_invalid(fullname, email, password)
    \/ register_duplicate(fullname, email, password)
    \/ register_ok(fullname, email, password)

login_unknown(email, password) ==
  /\ ~\E u \in users : u.email = email
  /\ resp' = Response("login", "Email not found. Please register first.")
  /\ UNCHANGED <<db, session, req>>

login_wrong(email, password) ==
  /\ \E u \in users : u.email = email /\ ~check_password_hash(u.password_hash, password)
  /\ resp' = Response("login", "Incorrect password.")
  /\ UNCHANGED <<db, session, req>>

login_ok(email, password) ==
  \E u \in users :
    /\ u.email = email
    /\ check_password_hash(u.password_hash, password)
    /\ LogRoom
    /\ session' = UserSession(u)
    /\ log_action(u.id, "user", <<"User logged in">>)
    /\ resp' = Response("login", "redirect:main_dashboard")
    /\ UNCHANGED <<users, admins, packages, bookings, payments, feedback, seq, req>>

login ==
  /\ Serving
  /\ \E email \in Emails, password \in Passwords :
    \/ login_unknown(email, password)
    \/ login_wrong(email, password)
    \/ login_ok(email, password)

(* the session cleared before the activity is recorded *)
logout_clears_first ==
  /\ Serving
  /\ NoLog
  /\ session' = EmptySession
  /\ resp' = Response("logout", "redirect:index")
  /\ UNCHANGED <<users, admins, packages, bookings, payments, feedback, seq, req>>

logout ==
  /\ Serving
  /\ HasUser => LogRoom
  /\ IF HasUser
     THEN log_action(session["user_id"], "user", <<"User logged out">>)
     ELSE NoLog
  /\ session' = EmptySession
  /\ resp' = Response("logout", "redirect:index")
  /\ UNCHANGED <<users, admins, packages, bookings, payments, feedback, seq, req>>

update_profile_do(name, email, phone, location) ==
  /\ HasUser
  /\ IF UniqueViolation(users, session["user_id"], email)
     THEN /\ resp' = Response("update_profile", "500:IntegrityError")
          /\ UNCHANGED users
     ELSE /\ users' = { IF u.id = session["user_id"]
                        THEN [u EXCEPT !.fullname = name, !.email = email,
                                       !.phone = phone, !.location = location]
                        ELSE u : u \in users }
          /\ resp' = Response("update_profile", "Profile updated successfully!")
  /\ UNCHANGED <<admins, packages, bookings, payments, feedback, admin_activity,
                 cloud_activity, seq, session, req>>

update_profile ==
  /\ Serving
  /\ \/ login_required("update_profile")
     \/ \E name \in Fullnames, email \in Emails, phone \in Phones,
           location \in Places :
          update_profile_do(name, email, phone, location)

(* columns of the users table, as init_db creates it *)
UsersColumns == {"id", "fullname", "email", "password_hash", "phone",
                 "location", "created_at"}

(* POST /profile: UPDATE users SET name, phone, address *)
profile ==
  /\ Serving
  /\ \/ login_required("profile")
     \/ /\ HasUser
        /\ IF {"name", "phone", "address"} \subseteq UsersColumns
           THEN /\ users' = { IF u.id = session["user_id"]
                              THEN [u EXCEPT !.phone = "555"] ELSE u : u \in users }
                /\ resp' = Response("profile", "Profile updated successfully!")
           ELSE /\ resp' = Response("profile", "500:OperationalError")
                /\ UNCHANGED users
        /\ UNCHANGED <<admins, packages, bookings, payments, feedback, admin_activity,
                       cloud_activity, seq, session, req>>

(* POST /user_change_password: SELECT password FROM users *)
user_change_password_do(current_password, new_password, confirm_password) ==
  /\ HasUser
  /\ IF "password" \in UsersColumns
     THEN LET user == { u \in users : u.id = session["user_id"] } IN
          IF user = {} \/ \E u \in user : u.password # current_password
          THEN /\ resp' = Response("user_change_password",
                                   "Incorrect current password.")
               /\ UNCHANGED users
          ELSE IF new_password # confirm_password
          THEN /\ resp' = Response("user_change_password",
                                   "New passwords do not match.")
               /\ UNCHANGED users
          ELSE /\ users' = { IF u.id = session["user_id"]
                             THEN [u EXCEPT !.password = new_password]
                             ELSE u : u \in users }
               /\ resp' = Response("user_change_password",
                                   "Password updated successfully!")
     ELSE /\ resp' = Response("user_change_password", "500:OperationalError")
          /\ UNCHANGED users
  /\ UNCHANGED <<admins, packages, bookings, payments, feedback, admin_activity,
                 cloud_activity, seq, session, req>>

user_change_password ==
  /\ Serving
  /\ \/ login_required("user_change_password")
     \/ \E current_password \in Passwords, new_password \in Passwords,
           confirm_password \in Passwords :
          user_change_password_do(current_password, new_password, confirm_password)

---------------------------------------------------------------------------
(* Catalog and booking *)
PackageById(pid) == { p \in packages : p.id = pid }

package_detail ==
  /\ Serving
  /\ \E pid \in 1..MaxPackageId :
       resp' = IF PackageById(pid) = {}
               THEN Response("package_detail", "404")
               ELSE Response("package_detail", "200")
  /\ UNCHANGED <<db, session, req>>

(* book_package up to the package lookup; the request then goes on to the
   POST branch with the row it has read *)
book_package_lookup ==
  /\ Serving
  /\ req = Idle
  /\ \/ login_required("book_package")
     \/ /\ HasUser
        /\ \E pid \in 1..MaxPackageId :
             IF PackageById(pid) = {}
             THEN /\ resp' = Response("book_package", "Package not found.")
                  /\ UNCHANGED req
             ELSE /\ req' = [pc |-> "post", user_id |-> session["user_id"],
                             package_id |-> pid,
                             package |-> CHOOSE p \in PackageById(pid) : TRUE]
                  /\ UNCHANGED resp
        /\ UNCHANGED <<db, session>>

(* the connection's transaction: the tables it has written, not yet visible
   to other connections *)
begin == [bookings |-> bookings, payments |-> payments, seq |-> seq]

insert_booking(tx, user_id, package_id, form, persons) ==
  [tx EXCEPT
    !.bookings = @ \cup
      {[id |-> tx.seq.bookings + 1, user_id |-> user_id,
        package_id |-> package_id, name |-> form.name, email |-> form.email,
        travel_date |-> form.travel_date, persons |-> persons,
        status |-> "Confirmed"]},
    !.seq.bookings = @ + 1]

lastrowid(tx) == tx.seq.bookings

insert_payment(tx, booking_id, user_id, amount) ==
  [tx EXCEPT
    !.payments = @ \cup
      {[id |-> tx.seq.payments + 1, booking_id |-> booking_id,
        user_id |-> user_id, amount |-> amount, payment_status |-> "SUCCESS",
        payment_method |-> "ONLINE"]},
    !.seq.payments = @ + 1]

confirm_booking(tx, booking_id) ==
  [tx EXCEPT !.bookings = { IF b.id = booking_id
                            THEN [b EXCEPT !.status = "Confirmed"]
                            ELSE b : b \in @ }]

commit(tx, committed) == tx

(* a rollback that leaves the statements already executed in place *)
rollback_keeps(tx, committed) == tx

rollback(tx, committed) == committed

BookingsCap ==
  IF surface = "bookings" THEN MaxBookings ELSE MaxCatalogBookings

(* statements of the transaction at which the database may raise *)
Faults == {"none", "insert_booking", "insert_payment", "update_status", "commit"}

BookForms ==
  [name : {"Alice"}, email : {"a@x.com"}, travel_date : TravelDates,
   persons : PersonsInputs]
  \cup [name : {"Alice"}, email : {"a@x.com"}, travel_date : {""},
        persons : {"2"}]

book_package_invalid(form) ==
  /\ ~(Truthy(form.name) /\ Truthy(form.email) /\ Truthy(form.travel_date)
       /\ Truthy(form.persons))
  /\ resp' = Response("book_package", "Please fill all fields.")
  /\ UNCHANGED db

book_package_try(form, fault) ==
  /\ Truthy(form.name) /\ Truthy(form.email) /\ Truthy(form.travel_date)
  /\ Truthy(form.persons)
  /\ IF ~IsIntLiteral(form.persons)
     THEN /\ resp' = Response("book_package",
                              "Something went wrong during booking!")
          /\ UNCHANGED db
     ELSE LET persons == int(form.persons)
              amount == mul(req.package.price, persons)
              t0 == begin
              t1 == insert_booking(t0, req.user_id, req.package_id, form, persons)
              booking_id == lastrowid(t1)
              t2 == insert_payment(t1, booking_id, req.user_id, amount)
              t3 == confirm_booking(t2, booking_id)
              raised == CASE fault = "insert_booking" -> t0
                          [] fault = "insert_payment" -> t1
                          [] fault = "update_status" -> t2
                          [] OTHER -> t3
              final == IF fault = "none" THEN commit(t3, t0)
                       ELSE rollback(raised, t0)
          IN /\ bookings' = final.bookings
             /\ payments' = final.payments
             /\ seq' = final.seq
             /\ UNCHANGED <<users, admins, packages, feedback>>
             /\ IF fault = "none" /\ FormatRaises(amount)
                THEN /\ seq.bookings < BookingsCap
                     /\ NoLog
                     /\ resp' = Response("book_package",
                              "Something went wrong during booking!")
                ELSE IF fault = "none"
                THEN /\ seq.bookings < BookingsCap /\ LogRoom
                     /\ log_action(req.user_id, "user",
                          <<"Booked package: ", req.package.title, amount>>)
                     /\ resp' = Response("book_package", "Booking confirmed!")
                ELSE /\ NoLog
                     /\ resp' = Response("book_package",
                              "Something went wrong during booking!")

book_package_submit ==
  /\ Serving
  /\ req.pc = "post"
  /\ \E form \in BookForms :
       \/ book_package_invalid(form)
       \/ \E fault \in Faults : book_package_try(form, fault)
  /\ req' = Idle
  /\ UNCHANGED session

MyBookingsRows(user_id) ==
  { [id |-> b.id, travel_date |-> b.travel_date, persons |-> b.persons,
     status |-> b.status, title |-> p.title, description |-> p.description,
     price |-> p.price, image_url |-> p.image_url] :
      <<b, p>> \in { bp \in bookings \X packages :
                       /\ bp[1].package_id = bp[2].id
                       /\ bp[1].user_id = user_id } }

my_bookings ==
  /\ Serving
  /\ \/ login_required("my_bookings")
     \/ /\ HasUser
        /\ resp' = Response("my_bookings", "200")
        /\ UNCHANGED <<db, session, req>>

---------------------------------------------------------------------------
(* Admin section *)
AdminEmails == {"admin@demo.com", "a@x.com"}
AdminPasswords == {"admin123", "pw1"}

admin_register_do(fullname, email, password, confirm_password) ==
  IF ~(Truthy(fullname) /\ Truthy(email) /\ Truthy(password)
       /\ Truthy(confirm_password))
  THEN /\ resp' = Response("admin_register", "All fields are required!")
       /\ UNCHANGED <<admins, seq>>
  ELSE IF password # confirm_password
  THEN /\ resp' = Response("admin_register", "Passwords do not match!")
       /\ UNCHANGED <<admins, seq>>
  ELSE IF UniqueViolation(admins, None, email)
  THEN /\ resp' = Response("admin_register", "Email already exists.")
       /\ UNCHANGED <<admins, seq>>
  ELSE /\ seq.admins < MaxAdmins
       /\ \E salt \in Salts :
            admins' = admins \cup
              {[id |-> seq.admins + 1, fullname |-> fullname, email |-> email,
                password_hash |-> generate_password_hash(salt, password),
                phone |-> NULL]}
       /\ seq' = [seq EXCEPT !.admins = @ + 1]
       /\ resp' = Response("admin_register",
                           "New admin registered successfully!")

admin_register ==
  /\ Serving
  /\ \E fullname \in {"Bob"}, email \in AdminEmails \cup {""},
        password \in {"pw1"}, confirm_password \in {"pw1", "pw2"} :
       admin_register_do(fullname, email, password, confirm_password)
  /\ UNCHANGED <<users, packages, bookings, payments, feedback, admin_activity,
                 cloud_activity, session, req>>

admin_login_unknown(email, password) ==
  /\ ~\E a \in admins : a.email = email
  /\ resp' = Response("admin_login", "Admin email not found.")
  /\ UNCHANGED <<db, session, req>>

admin_login_wrong(email, password) ==
  /\ \E a \in admins : a.email = email /\ ~check_password_hash(a.password_hash, password)
  /\ resp' = Response("admin_login", "Incorrect password.")
  /\ UNCHANGED <<db, session, req>>

admin_login_ok(email, password) ==
  \E a \in admins :
    /\ a.email = email
    /\ check_password_hash(a.password_hash, password)
    /\ LogRoom
    /\ session' = AdminSession(a)
    /\ log_action(a.id, "admin", <<"Admin logged in">>)
    /\ resp' = Response("admin_login", "redirect:admin_dashboard")
    /\ UNCHANGED <<users, admins, packages, bookings, payments, feedback, seq, req>>

admin_login ==
  /\ Serving
  /\ \E email \in AdminEmails, password \in AdminPasswords :
       \/ admin_login_unknown(email, password)
       \/ admin_login_wrong(email, password)
       \/ admin_login_ok(email, password)

admin_logout ==
  /\ Serving
  /\ HasAdmin => LogRoom
  /\ IF HasAdmin
     THEN log_action(session["admin_id"], "admin", <<"Admin logged out">>)
     ELSE NoLog
  /\ session' = EmptySession
  /\ resp' = Response("admin_logout", "redirect:admin_login")
  /\ UNCHANGED <<users, admins, packages, bookings, payments, feedback, seq, req>>

(* package forms; numeric fields arrive as strings *)
AddForms ==
  [title : {"City Tour", ""}, location : {"Delhi"}, description : {""},
   price : {"750", "abc"}, days : {"3"}, image_url : {"/static/city.png"}]

EditForms ==
  [title : {"City Tour"}, location : {"Delhi"}, description : {""},
   price : {"750"}, days : {"3"}, image_url : {"/static/city.png"},
   status : {"Available"}]

add_package_do(form) ==
  IF ~(Truthy(form.title) /\ Truthy(form.location) /\ Truthy(form.price)
       /\ Truthy(form.days))
  THEN /\ resp' = Response("add_package", "All fields marked * are required.")
       /\ UNCHANGED <<packages, seq>> /\ NoLog
  ELSE /\ seq.packages < MaxPackageId /\ LogRoom
       /\ packages' = packages \cup
            {[id |-> seq.packages + 1, title |-> form.title,
              location |-> form.location, description |-> form.description,
              price |-> RealAffinity(form.price),
              days |-> NumericAffinity(form.days),
              image_url |-> IF Truthy(form.image_url) THEN form.image_url
                            ELSE "https://picsum.photos/seed/default/800/500",
              status |-> "Available"]}
       /\ seq' = [seq EXCEPT !.packages = @ + 1]
       /\ log_action(session["admin_id"], "admin",
                     <<"Added new package: ", form.title>>)
       /\ resp' = Response("add_package", "Package added successfully!")

add_package ==
  /\ Serving
  /\ \/ admin_required("add_package")
     \/ /\ HasAdmin
        /\ \E form \in AddForms : add_package_do(form)
        /\ UNCHANGED <<users, admins, bookings, payments, feedback, session, req>>

edit_package_do(pid, form) ==
  IF PackageById(pid) = {}
  THEN /\ resp' = Response("edit_package", "404")
       /\ UNCHANGED packages /\ NoLog
  ELSE /\ LogRoom
       /\ packages' = { IF p.id = pid
                        THEN [p EXCEPT !.title = form.title,
                                       !.location = form.location,
                                       !.description = form.description,
                                       !.price = RealAffinity(form.price),
                                       !.days = NumericAffinity(form.days),
                                       !.image_url = form.image_url,
                                       !.status = form.status]
                        ELSE p : p \in packages }
       /\ log_action(session["admin_id"], "admin", <<"Edited package ID ", pid>>)
       /\ resp' = Response("edit_package", "Package updated successfully!")

edit_package ==
  /\ Serving
  /\ \/ admin_required("edit_package")
     \/ /\ HasAdmin
        /\ \E pid \in 1..MaxPackageId, form \in EditForms :
             edit_package_do(pid, form)
        /\ UNCHANGED <<users, admins, bookings, payments, feedback, seq, session, req>>

delete_package_do(pid) ==
  IF PackageById(pid) = {}
  THEN /\ resp' = Response("delete_package", "404")
       /\ UNCHANGED packages /\ NoLog
  ELSE /\ LogRoom
       /\ packages' = { p \in packages : p.id # pid }
       /\ log_action(session["admin_id"], "admin", <<"Deleted package ID ", pid>>)
       /\ resp' = Response("delete_package", "deleted")

delete_package ==
  /\ Serving
  /\ \/ admin_required("delete_package")
     \/ /\ HasAdmin
        /\ \E pid \in 1..MaxPackageId : delete_package_do(pid)
        /\ UNCHANGED <<users, admins, bookings, payments, feedback, seq, session, req>>

edit_admin_profile_do(name, email, phone) ==
  IF ~(Truthy(name) /\ Truthy(email))
  THEN /\ resp' = Response("edit_admin_profile", "Name and email are required.")
       /\ UNCHANGED admins
  ELSE IF UniqueViolation(admins, session["admin_id"], email)
  THEN /\ resp' = Response("edit_admin_profile", "500:IntegrityError")
       /\ UNCHANGED admins
  ELSE /\ admins' = { IF a.id = session["admin_id"]
                      THEN [a EXCEPT !.fullname = name, !.email = email,
                                     !.phone = phone]
                      ELSE a : a \in admins }
       /\ resp' = Response("edit_admin_profile", "Profile updated successfully!")

edit_admin_profile ==
  /\ Serving
  /\ \/ admin_required("edit_admin_profile")
     \/ /\ HasAdmin
        /\ \E name \in {"Bob", ""}, email \in AdminEmails, phone \in Phones :
             edit_admin_profile_do(name, email, phone)
        /\ UNCHANGED <<users, packages, bookings, payments, feedback, admin_activity,
                       cloud_activity, seq, session, req>>

change_password_do(current_pwd, new_pwd, confirm_pwd) ==
  LET admin == CHOOSE a \in admins : a.id = session["admin_id"] IN
  IF ~check_password_hash(admin.password_hash, current_pwd)
  THEN /\ resp' = Response("change_password", "Incorrect current password.")
       /\ UNCHANGED admins
  ELSE IF new_pwd # confirm_pwd
  THEN /\ resp' = Response("change_password", "New passwords do not match.")
       /\ UNCHANGED admins
  ELSE /\ \E salt \in Salts :
            admins' = { IF a.id = session["admin_id"]
                        THEN [a EXCEPT !.password_hash =
                                generate_password_hash(salt, new_pwd)]
                        ELSE a : a \in admins }
       /\ resp' = Response("change_password", "Password changed successfully!")

change_password ==
  /\ Serving
  /\ \/ admin_required("change_password")
     \/ /\ HasAdmin
        /\ \E current_pwd \in AdminPasswords, new_pwd \in AdminPasswords,
              confirm_pwd \in AdminPasswords :
             change_password_do(current_pwd, new_pwd, confirm_pwd)
        /\ UNCHANGED <<users, packages, bookings, payments, feedback, admin_activity,
                       cloud_activity, seq, session, req>>

AllBookingsRows ==
  { [id |-> b.id, user_name |-> u.fullname, user_email |-> u.email,
     package_name |-> p.title, status |-> b.status] :
      <<b, u, p>> \in { t \in bookings \X users \X packages :
                          /\ t[1].user_id = t[2].id
                          /\ t[3].id = t[1].package_id } }

all_bookings ==
  /\ Serving
  /\ \/ admin_required("all_bookings")
     \/ /\ HasAdmin
        /\ resp' = Response("all_bookings", "200")
        /\ UNCHANGED <<db, session, req>>

---------------------------------------------------------------------------
(* Search: explore_packages *)
(* the characters of the text values the package table holds *)
Chars(s) ==
  CASE s = "Beach Escape" -> <<"B", "e", "a", "c", "h", " ", "E", "s", "c", "a", "p", "e">>
    [] s = "Mountain Retreat" -> <<"M", "o", "u", "n", "t", "a", "i", "n", " ", "R", "e", "t", "r", "e", "a", "t">>
    [] s = "City Tour" -> <<"C", "i", "t", "y", " ", "T", "o", "u", "r">>
    [] s = "Goa" -> <<"G", "o", "a">>
    [] s = "Manali" -> <<"M", "a", "n", "a", "l", "i">>
    [] s = "Delhi" -> <<"D", "e", "l", "h", "i">>

AsciiUpper == <<"A", "B", "C", "D", "E", "F", "G", "H", "I", "J", "K", "L", "M", "N", "O", "P", "Q", "R", "S", "T", "U", "V", "W", "X", "Y", "Z">>
AsciiLower == <<"a", "b", "c", "d", "e", "f", "g", "h", "i", "j", "k", "l", "m", "n", "o", "p", "q", "r", "s", "t", "u", "v", "w", "x", "y", "z">>

(* SQLite's LIKE folds the case of ASCII letters only *)
Fold(c) ==
  IF \E i \in 1..26 : AsciiUpper[i] = c
  THEN AsciiLower[CHOOSE i \in 1..26 : AsciiUpper[i] = c]
  ELSE c

Whitespace == {" "}

RECURSIVE lstrip(_)
lstrip(q) ==
  IF q # << >> /\ Head(q) \in Whitespace THEN lstrip(Tail(q)) ELSE q

RECURSIVE rstrip(_)
rstrip(q) ==
  IF q # << >> /\ q[Len(q)] \in Whitespace
  THEN rstrip(SubSeq(q, 1, Len(q) - 1))
  ELSE q

strip(q) == rstrip(lstrip(q))

(* text LIKE pattern: % matches any run of characters, _ any one character *)
RECURSIVE LIKE(_, _)
LIKE(text, pattern) ==
  IF pattern = << >> THEN text = << >>
  ELSE IF Head(pattern) = "%"
  THEN \/ LIKE(text, Tail(pattern))
       \/ text # << >> /\ LIKE(Tail(text), pattern)
  ELSE IF text = << >> THEN FALSE
  ELSE IF Head(pattern) = "_" THEN LIKE(Tail(text), Tail(pattern))
  ELSE /\ Fold(Head(pattern)) = Fold(Head(text))
       /\ LIKE(Tail(text), Tail(pattern))

(* the q arguments of GET /explore *)
Queries ==
  { << >>, <<" ">>, <<"g", "o", "a">>, <<" ", "T", "O", "U", "R", " ">>,
    <<"a", "n">>, <<"x", "y", "z">>, <<"%">>, <<"_">> }

ExploreRows(q) ==
  IF q # << >>
  THEN { p \in packages :
           \/ LIKE(Chars(p.title), <<"%">> \o q \o <<"%">>)
           \/ LIKE(Chars(p.location), <<"%">> \o q \o <<"%">>) }
  ELSE packages

explore_packages ==
  /\ Serving
  /\ \E arg \in Queries :
       LET q == strip(arg)
       IN resp' = [handler |-> "explore_packages", outcome |-> "200",
                   arg |-> arg, packages |-> ExploreRows(q)]
  /\ UNCHANGED <<db, session, req>>

---------------------------------------------------------------------------
(* Feedback: contact *)
ContactForms ==
  [name : {"Alice"}, email : {"a@x.com"}, subject : {"Hello"},
   message : {"Nice trip", ""}]

contact ==
  /\ Serving
  /\ \E form \in ContactForms :
       IF Truthy(form.message)
       THEN /\ seq.feedback < MaxFeedback /\ LogRoom
            /\ feedback' = feedback \cup
                 {[id |-> seq.feedback + 1, user_name |-> form.name,
                   user_email |-> form.email, subject |-> form.subject,
                   message |-> form.message]}
            /\ seq' = [seq EXCEPT !.feedback = @ + 1]
            /\ log_action(None, "guest",
                          <<"Feedback submitted by ", form.email>>)
            /\ resp' = Response("contact", "Thanks for your feedback!")
       ELSE /\ resp' = Response("contact", "200")
            /\ UNCHANGED <<feedback, seq>> /\ NoLog
  /\ UNCHANGED <<users, admins, packages, bookings, payments, session, req>>

---------------------------------------------------------------------------
(* The handlers are explored in groups.  The account handlers write users,
   admins and the session; the catalog handlers write packages, bookings and
   payments; the booking handlers alone allow more bookings.  Every group
   holds a login and the activity log. *)
Surfaces == {"accounts", "catalog", "bookings", "search"}

(* the empty database file, before the process has started *)
EmptyStore ==
  /\ started = FALSE
  /\ users = {} /\ admins = {} /\ packages = {}
  /\ bookings = {} /\ payments = {} /\ feedback = {}
  /\ admin_activity = << >> /\ cloud_activity = << >>
  /\ seq = [users |-> 0, admins |-> 0, packages |-> 0, bookings |-> 0,
            payments |-> 0, feedback |-> 0]
  /\ audit_up \in BOOLEAN
  /\ session = EmptySession
  /\ req = Idle
  /\ resp = Response("", "")

(* the database after init_db and the registration of two users *)
TwoUsers ==
  /\ started = TRUE
  /\ users = { [id |-> 1, fullname |-> "Alice", email |-> "a@x.com",
                password_hash |-> generate_password_hash("s1", "pw1"),
                phone |-> NULL, location |-> NULL],
               [id |-> 2, fullname |-> "Alice", email |-> "b@x.com",
                password_hash |-> generate_password_hash("s1", "pw1"),
                phone |-> NULL, location |-> NULL] }
  /\ admins = {SeedAdmin(1, "s1")}
  /\ packages = SeedPackages(0)
  /\ bookings = {} /\ payments = {} /\ feedback = {}
  /\ admin_activity = << >> /\ cloud_activity = << >>
  /\ seq = [users |-> 2, admins |-> 1, packages |-> 2, bookings |-> 0,
            payments |-> 0, feedback |-> 0]
  /\ audit_up \in BOOLEAN
  /\ session = EmptySession
  /\ req = Idle
  /\ resp = Response("", "")

InitAccounts == surface = "accounts" /\ EmptyStore

InitCatalog == surface = "catalog" /\ TwoUsers

InitBookings == surface = "bookings" /\ TwoUsers

InitSearch == surface = "search" /\ EmptyStore

Init == InitAccounts \/ InitCatalog \/ InitBookings \/ InitSearch

(* the account and session handlers *)
NextAccounts ==
  \/ init_db
  \/ register
  \/ login
  \/ logout
  \/ update_profile
  \/ profile
  \/ user_change_password
  \/ admin_register
  \/ admin_login
  \/ admin_logout
  \/ edit_admin_profile
  \/ change_password

(* the catalog and booking handlers, with the logins they are reached by *)
NextCatalog ==
  \/ init_db
  \/ login
  \/ admin_login
  \/ package_detail
  \/ book_package_lookup
  \/ book_package_submit
  \/ my_bookings
  \/ add_package
  \/ edit_package
  \/ delete_package
  \/ all_bookings

(* the booking handlers alone, with the user login *)
NextBookings ==
  \/ login
  \/ book_package_lookup
  \/ book_package_submit

(* the public pages, with the handlers that change the package table *)
NextSearch ==
  \/ init_db
  \/ admin_login
  \/ add_package
  \/ edit_package
  \/ delete_package
  \/ explore_packages
  \/ contact

(* start-up and the package table *)
NextStartup ==
  \/ init_db
  \/ admin_login
  \/ add_package
  \/ delete_package

Next ==
  \/ surface = "accounts" /\ NextAccounts
  \/ surface = "catalog" /\ NextCatalog
  \/ surface = "bookings" /\ NextBookings
  \/ surface = "search" /\ NextSearch

Spec == Init /\ [][Next]_vars

SpecAccounts == InitAccounts /\ [][NextAccounts]_vars

(* the account handlers where every activity insert succeeds *)
InitAudit == InitAccounts /\ audit_up = TRUE

SpecAudit == InitAudit /\ [][NextAccounts]_vars

SpecCatalog == InitCatalog /\ [][NextCatalog]_vars

SpecBookings == InitBookings /\ [][NextBookings]_vars

SpecSearch == InitSearch /\ [][NextSearch]_vars

(* the handlers that call log_action, where every activity insert fails *)
InitNoAudit ==
  /\ InitAccounts \/ InitBookings \/ InitSearch
  /\ audit_up = FALSE

NextNoAudit ==
  \/ surface = "accounts" /\ NextAccounts
  \/ surface = "bookings" /\ NextBookings
  \/ surface = "search" /\ NextSearch

SpecNoAudit == InitNoAudit /\ [][NextNoAudit]_vars

InitStartup == surface = "catalog" /\ EmptyStore

SpecStartup == InitStartup /\ [][NextStartup]_vars
---------------------------------------------------------------------------
(* Claims *)

PaymentsOf(b) == { p \in payments : p.booking_id = b.id }

(* C1: committed bookings and payments are in one-to-one correspondence:
   every booking row has exactly one payment row with its id, every payment
   row references a booking row, and a book_package call that raises in the
   transaction (at the booking insert or after it) leaves neither row
   behind. *)
C1_BookingPaymentPairs ==
  /\ [](/\ \A b \in bookings : Cardinality(PaymentsOf(b)) = 1
        /\ \A p \in payments : \E b \in bookings : b.id = p.booking_id)
  /\ [][(/\ req.pc = "post" /\ req' = Idle
          /\ resp' = Response("book_package",
                              "Something went wrong during booking!"))
            => bookings' = bookings /\ payments' = payments]_vars

(* two bookings are committed and a later book_package call has failed *)
C1_Witness ==
  /\ Cardinality(bookings) >= 2
  /\ resp = Response("book_package", "Something went wrong during booking!")

(* C2: at the moment a payment row is committed its amount equals the booked
   package's price times the booking's persons and its booking is confirmed,
   also when the package's price is edited between the handler's read of the
   package and the commit. *)
C2_AmountIsPriceTimesPersons ==
  [][book_package_submit =>
       \A p \in payments' \ payments :
         \A b \in bookings' :
           b.id = p.booking_id =>
             /\ b.status = "Confirmed"
             /\ \A k \in packages' :
                  k.id = b.package_id =>
                    p.amount = REAL(k.price.real * b.persons)]_vars

(* the rows my_bookings renders for a booking, by its booking fields *)
Retrieved(b, rows) ==
  \E r \in rows : /\ r.id = b.id /\ r.travel_date = b.travel_date
                  /\ r.persons = b.persons /\ r.status = b.status

(* C6: after an admin deletes a package, package_detail of it is 404, no
   booking or payment row has changed, and every booking my_bookings and
   all_bookings returned before the delete is still returned by them. *)
C6_BookingsStillListed ==
  [][delete_package =>
       /\ bookings' = bookings /\ payments' = payments
       /\ \A b \in bookings :
            /\ Retrieved(b, MyBookingsRows(b.user_id))
                 => Retrieved(b, MyBookingsRows(b.user_id)')
            /\ (\E r \in AllBookingsRows : r.id = b.id)
                 => (\E r \in AllBookingsRows' : r.id = b.id)]_vars
(* C3: register with non-empty fullname, email and password and an email no
   user row has succeeds and adds exactly one user row; an authenticate with
   that email and password then succeeds and binds the session to the row's
   id and fullname. *)
RegisterCall(fullname, email, password) ==
  \/ register_invalid(fullname, email, password)
  \/ register_duplicate(fullname, email, password)
  \/ register_ok(fullname, email, password)

LoginCall(email, password) ==
  \/ login_unknown(email, password)
  \/ login_wrong(email, password)
  \/ login_ok(email, password)

C3_RegisterThenAuthenticate ==
  [][/\ resp'.handler = "register" =>
          \A fullname \in Fullnames, email \in Emails, password \in {"pw1"} :
            (/\ RegisterCall(fullname, email, password)
             /\ ~\E u \in users : u.email = email)
              => /\ resp'.outcome = "Registration successful! Please log in."
                 /\ \E u \in users' \ users :
                      /\ users' = users \cup {u}
                      /\ u.email = email /\ u.fullname = fullname
                      /\ check_password_hash(u.password_hash, password)
     /\ resp'.handler = "login" =>
          \A email \in Emails, password \in Passwords :
            (/\ LoginCall(email, password)
             /\ \E u \in users : /\ u.email = email
                                 /\ check_password_hash(u.password_hash, password))
              => /\ resp'.outcome = "redirect:main_dashboard"
                 /\ \E u \in users :
                      /\ u.email = email
                      /\ DOMAIN session' = {"user_id", "user_name"}
                      /\ session'["user_id"] = u.id
                      /\ session'["user_name"] = u.fullname]_vars

(* a registered user has logged in *)
C3_Witness ==
  /\ resp = Response("login", "redirect:main_dashboard")
  /\ HasUser
  /\ \E u \in users : u.id = session["user_id"]

(* C4: no two user rows and no two admin rows share an email; a register
   (user or admin) that reuses an email ends with the duplicate-email
   notice and leaves the rows unchanged. *)
UniqueEmails(rows) ==
  \A r1 \in rows, r2 \in rows : r1.email = r2.email => r1 = r2

C4_EmailsUnique ==
  /\ [](UniqueEmails(users) /\ UniqueEmails(admins))
  /\ [][/\ resp'.handler = "register" =>
             \A fullname \in Fullnames, email \in Emails, password \in {"pw1"} :
               (/\ RegisterCall(fullname, email, password)
                /\ \E u \in users : u.email = email)
                 => /\ resp'.outcome = "Email already registered."
                    /\ users' = users
        /\ resp'.handler = "admin_register" =>
             \A email \in AdminEmails :
               (/\ admin_register_do("Bob", email, "pw1", "pw1")
                /\ \E a \in admins : a.email = email)
                 => /\ resp'.outcome = "Email already exists."
                    /\ admins' = admins]_vars

(* a profile update was refused because another user holds the email *)
C4_Witness ==
  /\ resp = Response("update_profile", "500:IntegrityError")
  /\ Cardinality(users) = 2

(* C5: init_db on the empty store inserts exactly one seed admin
   (admin@demo.com) and exactly the two seed packages; run again right after
   itself it changes nothing; and it never inserts a seed row into a table
   that holds a row. *)
C5_InitIdempotent ==
  [][init_db =>
       /\ admins = {} =>
            /\ Cardinality(admins') = 1
            /\ \A a \in admins' : a.email = "admin@demo.com"
       /\ packages = {} =>
            /\ Cardinality(packages') = 2
            /\ {k.title : k \in packages'} = {"Beach Escape", "Mountain Retreat"}
       /\ admins # {} => admins' = admins
       /\ packages # {} => packages' = packages
       /\ resp.handler = "init_db" => db' = db]_vars

(* init_db has run on a package table that held one row *)
C5_Witness ==
  /\ resp = Response("init_db", "initialized")
  /\ Cardinality(packages) = 1
  /\ Cardinality(admins) = 1

(* C7: the user and admin session keys are independent: a successful user
   login leaves admin_id and admin_name as they were, a successful admin
   login leaves user_id and user_name as they were. *)
C7_NamespacesIndependent ==
  [][/\ (resp' = Response("login", "redirect:main_dashboard") /\ HasAdmin)
          => /\ "admin_id" \in DOMAIN session'
             /\ session'["admin_id"] = session["admin_id"]
     /\ (resp' = Response("admin_login", "redirect:admin_dashboard") /\ HasUser)
          => /\ "user_id" \in DOMAIN session'
             /\ session'["user_id"] = session["user_id"]]_vars

(* C7 as amended: a successful login clears the session and sets the keys
   of its own role only, so one browser session never holds user_id and
   admin_id together. *)
C7_OneRolePerSession ==
  /\ ~(HasUser /\ HasAdmin)
  /\ DOMAIN session \in {{}, {"user_id", "user_name"},
                         {"admin_id", "admin_name"}}

(* a user has logged in right after an admin login in the same browser *)
C7_Witness ==
  /\ Len(admin_activity) >= 2
  /\ admin_activity[Len(admin_activity) - 1].action = <<"Admin logged in">>
  /\ admin_activity[Len(admin_activity)].action = <<"User logged in">>
  /\ resp = Response("login", "redirect:main_dashboard")
  /\ DOMAIN session = {"user_id", "user_name"}

(* C8: changePassword, for users and admins: a currentPassword that does
   not verify, or a newPassword that differs from confirmPassword, leaves
   the credential unchanged; otherwise the credential is replaced so that
   newPassword verifies against it. *)
Verifies(rows, id, password) ==
  \E r \in rows : r.id = id /\ check_password_hash(r.password_hash, password)

C8_ChangePassword ==
  [][/\ (resp'.handler = "user_change_password" /\ HasUser) =>
          \A cur \in Passwords, new \in Passwords, conf \in Passwords :
            user_change_password_do(cur, new, conf) =>
              IF Verifies(users, session["user_id"], cur) /\ new = conf
              THEN Verifies(users', session["user_id"], new)
              ELSE users' = users
     /\ (resp'.handler = "change_password" /\ HasAdmin) =>
          \A cur \in AdminPasswords, new \in AdminPasswords,
             conf \in AdminPasswords :
            change_password_do(cur, new, conf) =>
              IF Verifies(admins, session["admin_id"], cur) /\ new = conf
              THEN Verifies(admins', session["admin_id"], new)
              ELSE admins' = admins]_vars

(* C9: a guarded handler answers a request without its session with the
   redirect to the matching login page and leaves the datastore unchanged;
   bookings and payments are written only by a request admitted with
   user_id, packages only by init_db or a request with admin_id. *)
UserGuarded == {"book_package", "my_bookings", "update_profile", "profile",
                "user_change_password"}
AdminGuarded == {"add_package", "edit_package", "delete_package",
                 "edit_admin_profile", "change_password", "all_bookings"}
Answered(handlers) ==
  resp'.handler \in handlers /\ ~(req.pc = "idle" /\ req'.pc = "post")

C9_GuardsHold ==
  [][/\ (Answered(UserGuarded) /\ req.pc = "idle") =>
          IF HasUser THEN resp'.outcome # "redirect:login"
          ELSE resp'.outcome = "redirect:login" /\ db' = db
     /\ Answered(AdminGuarded) =>
          IF HasAdmin THEN resp'.outcome # "redirect:admin_login"
          ELSE resp'.outcome = "redirect:admin_login" /\ db' = db
     /\ (req.pc = "idle" /\ req'.pc = "post") => HasUser
     /\ (bookings' # bookings \/ payments' # payments) => req.pc = "post"
     /\ packages' # packages => HasAdmin \/ resp'.handler = "init_db"]_vars

(* a guarded request without its session was sent to the login page *)
C9_Witness ==
  /\ resp = Response("delete_package", "redirect:admin_login")
  /\ ~HasAdmin
  /\ bookings # {}

(* C10: /logout and /admin/logout leave the session without any key; /logout
   appends exactly one activity row, for the user, iff user_id was set, and
   /admin/logout exactly one, for the admin, iff admin_id was set. *)
Activity == admin_activity \o cloud_activity

AppendsOne(actor, role) ==
  /\ Len(admin_activity') + Len(cloud_activity')
       = Len(admin_activity) + Len(cloud_activity) + 1
  /\ \/ /\ SubSeq(admin_activity', 1, Len(admin_activity)) = admin_activity
        /\ cloud_activity' = cloud_activity
        /\ LET row == admin_activity'[Len(admin_activity')]
           IN row.admin_id = actor /\ row.role = role
     \/ /\ SubSeq(cloud_activity', 1, Len(cloud_activity)) = cloud_activity
        /\ admin_activity' = admin_activity
        /\ LET row == cloud_activity'[Len(cloud_activity')]
           IN row.user_id = actor /\ row.role = role

C10_LogoutClearsAndLogs ==
  [][/\ logout =>
          /\ DOMAIN session' = {}
          /\ IF HasUser THEN AppendsOne(session["user_id"], "user")
             ELSE admin_activity' = admin_activity
                  /\ cloud_activity' = cloud_activity
     /\ admin_logout =>
          /\ DOMAIN session' = {}
          /\ IF HasAdmin THEN AppendsOne(session["admin_id"], "admin")
             ELSE admin_activity' = admin_activity
                  /\ cloud_activity' = cloud_activity]_vars

(* a logged-in user has logged out *)
C10_Witness ==
  /\ resp = Response("logout", "redirect:index")
  /\ DOMAIN session = {}
  /\ Len(admin_activity) >= 1
  /\ admin_activity[Len(admin_activity)].action = <<"User logged out">>
(* C11: book_package rejects invalid requests without changing the store:
   an unknown package id ends with the not-found notice, a form lacking
   name, email, travel_date or persons ends with the fill-all-fields notice,
   and in both cases, and when persons is not an integer literal, the
   booking, payment and activity rows are the same after the call. *)
SubmitCall(form) ==
  \/ book_package_invalid(form)
  \/ \E fault \in Faults : book_package_try(form, fault)

Missing(form) ==
  form.name = "" \/ form.email = "" \/ form.travel_date = ""
    \/ form.persons = ""

RowsKept ==
  /\ bookings' = bookings /\ payments' = payments
  /\ admin_activity' = admin_activity /\ cloud_activity' = cloud_activity

C11_InvalidBookingRejected ==
  [][/\ (book_package_lookup /\ HasUser) =>
          /\ req'.pc = "post" => PackageById(req'.package_id) # {}
          /\ req'.pc = "idle" =>
               /\ resp' = Response("book_package", "Package not found.")
               /\ \E pid \in 1..MaxPackageId : PackageById(pid) = {}
               /\ RowsKept
     /\ (req.pc = "post" /\ book_package_submit) =>
          \A form \in BookForms :
            SubmitCall(form) =>
              /\ Missing(form) =>
                   /\ resp' = Response("book_package",
                                       "Please fill all fields.")
                   /\ RowsKept
              /\ (~Missing(form) /\ form.persons \notin {"2", "0"}) =>
                   RowsKept]_vars

(* after a committed booking, a form without a travel date was refused *)
C11_Witness ==
  /\ resp = Response("book_package", "Please fill all fields.")
  /\ bookings # {}
(* C12: at the moment a booking row is committed, a package row with its
   package_id and a user row with its user_id exist, also when an admin
   deletes the package between the handler's lookup and its commit. *)
C12_BookingReferencesExist ==
  [][(req.pc = "post" /\ book_package_submit) =>
       \A b \in bookings' \ bookings :
         /\ \E k \in packages' : k.id = b.package_id
         /\ \E u \in users' : u.id = b.user_id]_vars
(* C13: search with an empty or whitespace-only query returns exactly all
   packages; search with a non-empty q returns exactly the packages whose
   title or location contains q as a case-insensitive substring. *)
Contains(text, q) ==
  \E i \in 1..(Len(text) - Len(q) + 1) :
    \A j \in 1..Len(q) : Fold(text[i + j - 1]) = Fold(q[j])

IsBlank(arg) == \A i \in 1..Len(arg) : arg[i] = " "

Trimmed(arg) ==
  LET inside == { i \in 1..Len(arg) : arg[i] # " " }
      first == CHOOSE i \in inside : \A j \in inside : i <= j
      last == CHOOSE i \in inside : \A j \in inside : j <= i
  IN SubSeq(arg, first, last)

C13_SearchIsSubstring ==
  [][explore_packages =>
       resp'.packages =
         IF IsBlank(resp'.arg) THEN packages
         ELSE { p \in packages :
                  \/ Contains(Chars(p.title), Trimmed(resp'.arg))
                  \/ Contains(Chars(p.location), Trimmed(resp'.arg)) }]_vars
(* C14: every committed booking row has persons >= 1, and so no payment
   for a positively priced package has a zero or negative amount. *)
C14_PersonsPositive ==
  /\ \A b \in bookings : b.persons >= 1
  /\ \A p \in payments : p.amount.type = "real" /\ p.amount.real > 0
(* C15: log_action writes a row into admin_activity when the role is
   "admin" and into cloud_activity for every other role, so admin_activity
   holds only rows whose role is "admin" and cloud_activity none of them. *)
C15_AdminTableHoldsAdminRows ==
  /\ \A i \in 1..Len(admin_activity) : admin_activity[i].role = "admin"
  /\ \A i \in 1..Len(cloud_activity) : cloud_activity[i].role # "admin"
(* C16: a failing activity insert never propagates: where the insert fails,
   every operation that calls log_action (register, login, logout, contact,
   book_package, add, edit and delete package) still ends with its normal
   success outcome, and the rows it committed before the call are in the
   store. *)
C16_CanSucceed ==
  /\ (started /\ seq.users < MaxUsers
        /\ \E email \in Emails : \A u \in users : u.email # email)
       => ENABLED (/\ register
                   /\ resp' = Response("register",
                                "Registration successful! Please log in.")
                   /\ users' # users)
  /\ (started /\ \E u \in users, password \in Passwords :
                   check_password_hash(u.password_hash, password))
       => ENABLED (/\ login
                   /\ resp' = Response("login", "redirect:main_dashboard")
                   /\ "user_id" \in DOMAIN session')
  /\ (started /\ HasUser)
       => ENABLED (/\ logout
                   /\ resp' = Response("logout", "redirect:index")
                   /\ session' = EmptySession)
  /\ (started /\ seq.feedback < MaxFeedback)
       => ENABLED (/\ contact
                   /\ resp' = Response("contact", "Thanks for your feedback!")
                   /\ feedback' # feedback)
  /\ (started /\ req.pc = "post" /\ seq.bookings < BookingsCap)
       => (req.package.price.type = "real"
             => ENABLED (/\ book_package_submit
                         /\ resp' = Response("book_package",
                                             "Booking confirmed!")
                         /\ bookings' # bookings /\ payments' # payments))
  /\ (started /\ HasAdmin /\ seq.packages < MaxPackageId)
       => ENABLED (/\ add_package
                   /\ resp' = Response("add_package",
                                       "Package added successfully!")
                   /\ packages' # packages)
  /\ (started /\ HasAdmin /\ packages # {})
       => /\ ENABLED (/\ edit_package
                      /\ resp' = Response("edit_package",
                                          "Package updated successfully!"))
          /\ ENABLED (/\ delete_package
                      /\ resp' = Response("delete_package", "deleted")
                      /\ packages' # packages)

C16_AuditFailureContained ==
  /\ [](~audit_up => C16_CanSucceed)
  /\ [][~audit_up =>
          /\ (register /\ users' # users) =>
               resp' = Response("register",
                                "Registration successful! Please log in.")
          /\ (contact /\ feedback' # feedback) =>
               resp' = Response("contact", "Thanks for your feedback!")
          /\ (req.pc = "post" /\ book_package_submit
                /\ resp' = Response("book_package", "Booking confirmed!")) =>
               /\ \E b \in bookings' \ bookings :
                    \E p \in payments' \ payments : p.booking_id = b.id
               /\ admin_activity' = admin_activity
               /\ cloud_activity' = cloud_activity
          /\ (add_package /\ packages' # packages) =>
               resp' = Response("add_package", "Package added successfully!")
          /\ (edit_package /\ packages' # packages) =>
               resp' = Response("edit_package",
                                "Package updated successfully!")
          /\ (delete_package /\ packages' # packages) =>
               resp' = Response("delete_package", "deleted")
          /\ logout => session' = EmptySession]_vars

(* with the activity insert failing, a booking is committed and confirmed
   and nothing was logged *)
C16_Witness ==
  /\ ~audit_up
  /\ resp = Response("book_package", "Booking confirmed!")
  /\ bookings # {}
  /\ admin_activity = << >> /\ cloud_activity = << >>
(* C17: bookings and payments are append-only: a committed booking row is
   never removed and none of its fields changes, its payment row likewise,
   and the only operation that adds booking or payment rows is a successful
   book_package. *)
C17_AppendOnly ==
  [][/\ bookings \subseteq bookings'
     /\ payments \subseteq payments'
     /\ (bookings' # bookings \/ payments' # payments) =>
          /\ req.pc = "post"
          /\ resp' = Response("book_package", "Booking confirmed!")]_vars
====
